---- MODULE Spec2Model ----
(***************************************************************************)
(* AgentHub: the agent registry, its call proxy, the metrics engine and    *)
(* the per-key rate limiter, modelled from agenthub/app.                   *)
(*                                                                         *)
(* Floats are modelled as exact fractions <<numerator, denominator>> in    *)
(* lowest terms (avg_latency, reputation_score).  Python's None is the     *)
(* empty sequence and a present optional value x is <<x>>.                 *)
(* Time is counted in ticks, TicksPerSecond ticks to the second, so that   *)
(* time.time() can fall between whole seconds.                             *)
(***************************************************************************)
EXTENDS Integers, Sequences, FiniteSets, TLC

\* ---- bounds of the model -------------------------------------------------
MaxAgents == 2
MaxOps == 4
MaxTime == 2
MaxLatency == 2
MaxInFlight == 2
MaxCapacity == 2
WindowSeconds == 2
TicksPerSecond == 2

\* ---- optional values and fractions --------------------------------------
None == <<>>
Some(x) == <<x>>

RECURSIVE GCD(_, _)
GCD(a, b) == IF b = 0 THEN a ELSE GCD(b, a % b)

Frac(n, d) == LET g == GCD(n, d) IN <<n \div g, d \div g>>
Zero == <<0, 1>>
FromInt(n) == <<n, 1>>
FracLeq(x, y) == x[1] * y[2] <= y[1] * x[2]
FracLess(x, y) == x[1] * y[2] < y[1] * x[2]
FracMax(x, y) == IF FracLeq(y, x) THEN x ELSE y
FracMin(x, y) == IF FracLeq(x, y) THEN x ELSE y
\* float("inf"): greater than every fraction, equal to itself.
Inf == <<1, 0>>

Max(a, b) == IF a >= b THEN a ELSE b

\* ---- inputs ---------------------------------------------------------------
\* X-API-Key header values: the configured secret, another string, "" for a
\* header that is empty or absent (both fail `not api_key`), and "cl<e9>" for
\* a value that holds a character outside ASCII (the byte e9, which the
\* server decodes as latin-1).
Expected == "secret"
NonAscii == {"cl<e9>"}
ApiKeys == {Expected, "wrong-key", "", "cl<e9>"}
\* agent_id of a call/report payload: 0 fails the schema's gt=0.
AgentIdInputs == 0 .. MaxAgents
Latencies == 1 .. MaxLatency
StatusCodes == {200, 399, 400}
\* What the upstream body is: a JSON object, JSON null, another JSON value
\* (array, string, number), or text that is not JSON.
BodyKinds == {"object", "null", "array", "text"}
Outcomes ==
    [kind : {"response"}, status_code : StatusCodes, body : BodyKinds]
    \cup [kind : {"timeout", "request_error"}, status_code : {0}, body : {"text"}]
Workers == 1 .. MaxInFlight
\* The registration payload of the test suite: one skill, price 0.001,
\* max_latency_ms 500.
SamplePayload ==
    [skills |-> <<"summarize_text">>, price_per_call |-> <<1, 1000>>,
     max_latency_ms |-> 500]
\* max_latency_ms of a registration (gt=0): the least value, values on both
\* sides of the two limits of the timeout, and the test suite's.
LatencyBudgets == {1, 49, 50, 51, 500, 29999, 30000, 30001}
\* Query parameters of search: skill, max_price (ge=0), min_score (0..1),
\* each absent (None) or present.
Skills == {"summarize_text", "translate_text"}
Prices == {<<1, 1000>>, <<1, 500>>}
Queries ==
    [skill : {None} \cup {Some(k) : k \in Skills \cup {"", "summarize"}},
     max_price : {None, Some(Zero), Some(<<1, 1000>>)},
     min_score : {None, Some(<<1, 2>>)}]
NoFilters == [skill |-> None, max_price |-> None, min_score |-> None]

VARIABLES
    now,            \* time.time(), in ticks
    max_requests,   \* InMemoryRateLimiter.max_requests
    store,          \* InMemoryRateLimiter._store: key -> deque of timestamps
    agents,         \* table agents: id -> row
    call_logs,      \* table call_logs, in insertion order
    req,            \* per worker: the request it is handling
    budget,         \* requests still to be issued
    allow_log       \* history of allow() calls: <<key, now, admitted, retry_after>>

vars == <<now, max_requests, store, agents, call_logs, req, budget, allow_log>>

\* ---- models.py -----------------------------------------------------------
\* A new row of agents: the columns register_agent sets from the payload,
\* the others at their defaults.  Of the descriptive columns only skills and
\* price_per_call (by search_agents) and max_latency_ms (by call_agent) are
\* read again; name, the schemas and endpoint are left out.
Agent(payload) ==
    [skills |-> payload.skills, price_per_call |-> payload.price_per_call,
     max_latency_ms |-> payload.max_latency_ms,
     total_calls |-> 0, successful_calls |-> 0, failed_calls |-> 0,
     avg_latency |-> Zero, reputation_score |-> Zero]

MetricColumns ==
    {"total_calls", "successful_calls", "failed_calls", "avg_latency",
     "reputation_score"}

CallLog(agent_id, success, latency_ms, error_message) ==
    [agent_id |-> agent_id, success |-> success, latency_ms |-> latency_ms,
     error_message |-> error_message]

\* ---- services.py ---------------------------------------------------------
update_reputation(agent) ==
    IF agent.total_calls <= 0
    THEN [agent EXCEPT !.reputation_score = Zero]
    ELSE [agent EXCEPT !.reputation_score =
              Frac(agent.successful_calls, agent.total_calls)]

\* The running mean of line 29: (avg * samples + latency) / (samples + 1).
running_mean(avg, samples, latency_ms) ==
    IF samples <= 0
    THEN FromInt(latency_ms)
    ELSE Frac(avg[1] * samples + latency_ms * avg[2], avg[2] * (samples + 1))

\* Variant: a failure is not counted in failed_calls.
apply_call_metrics_failure_uncounted(agent, success, latency_ms, previous_latency_samples) ==
    LET counted ==
            [agent EXCEPT
                !.total_calls = @ + 1,
                !.successful_calls = IF success THEN @ + 1 ELSE @]
        samples ==
            IF previous_latency_samples # None
            THEN previous_latency_samples[1]
            ELSE agent.total_calls
        timed ==
            IF latency_ms # None
            THEN [counted EXCEPT !.avg_latency =
                      running_mean(agent.avg_latency, samples, latency_ms[1])]
            ELSE counted
    IN update_reputation(timed)

\* Variant: a missing latency is taken as a latency of 0.
apply_call_metrics_none_as_zero(agent, success, latency_ms, previous_latency_samples) ==
    LET counted ==
            [agent EXCEPT
                !.total_calls = @ + 1,
                !.successful_calls = IF success THEN @ + 1 ELSE @,
                !.failed_calls = IF success THEN @ ELSE @ + 1]
        samples ==
            IF previous_latency_samples # None
            THEN previous_latency_samples[1]
            ELSE agent.total_calls
        value == IF latency_ms # None THEN latency_ms[1] ELSE 0
    IN update_reputation(
           [counted EXCEPT !.avg_latency =
                running_mean(agent.avg_latency, samples, value)])

apply_call_metrics(agent, success, latency_ms, previous_latency_samples) ==
    LET previous_total == agent.total_calls
        counted ==
            [agent EXCEPT
                !.total_calls = @ + 1,
                !.successful_calls = IF success THEN @ + 1 ELSE @,
                !.failed_calls = IF success THEN @ ELSE @ + 1]
        samples ==
            IF previous_latency_samples # None
            THEN previous_latency_samples[1]
            ELSE previous_total
        timed ==
            IF latency_ms # None
            THEN [counted EXCEPT !.avg_latency =
                      running_mean(agent.avg_latency, samples, latency_ms[1])]
            ELSE counted
    IN update_reputation(timed)

\* Variant: every log is written with success = true.
log_call_always_success(agent_id, success, latency_ms, error_message) == CallLog(agent_id, TRUE, latency_ms, error_message)

log_call(agent_id, success, latency_ms, error_message) ==
    CallLog(agent_id, success, latency_ms, error_message)

\* ---- auth.py -------------------------------------------------------------
\* secrets.compare_digest(a, b) on str raises TypeError unless both are ASCII.
compare_digest_raises(a, b) == a \in NonAscii \/ b \in NonAscii

\* get_api_key: TRUE when the key is returned, FALSE when it raises.
get_api_key(api_key) ==
    /\ api_key # ""
    /\ ~compare_digest_raises(api_key, Expected)
    /\ api_key = Expected

\* The status answered when get_api_key raises: 401 for its HTTPException,
\* 500 for the TypeError of compare_digest, which nothing catches.
get_api_key_status(api_key) ==
    IF api_key # "" /\ compare_digest_raises(api_key, Expected)
    THEN 500 ELSE 401

\* ---- rate_limit.py -------------------------------------------------------
\* InMemoryRateLimiter.window_seconds, in ticks.
WindowTicks == WindowSeconds * TicksPerSecond

RECURSIVE popleft_expired(_, _)
popleft_expired(bucket, t) ==
    IF bucket # <<>> /\ (t - Head(bucket)) > WindowTicks
    THEN popleft_expired(Tail(bucket), t)
    ELSE bucket

\* Variant: the capacity test is > instead of >=.
allow_off_by_one(key, t) ==
    LET bucket == popleft_expired(store[key], t)
    IN IF Len(bucket) > max_requests
       THEN IF bucket = <<>>
            THEN [raises |-> TRUE, admitted |-> FALSE, retry_after |-> 0,
                  bucket |-> bucket]
            ELSE [raises |-> FALSE, admitted |-> FALSE,
                  retry_after |->
                      Max(1, (WindowTicks - (t - Head(bucket)))
                                 \div TicksPerSecond),
                  bucket |-> bucket]
       ELSE [raises |-> FALSE, admitted |-> TRUE, retry_after |-> 0,
             bucket |-> Append(bucket, t)]

\* InMemoryRateLimiter.allow at time t: the returned pair and the bucket left.
\* int() of a non-negative float drops the fraction: \div on ticks.
\* bucket[0] of line 26 raises IndexError when the bucket is empty: raises is
\* TRUE, nothing is returned (admitted and retry_after mean nothing then) and
\* the bucket is as the pruning left it.
allow(key, t) ==
    LET bucket == popleft_expired(store[key], t)
    IN IF Len(bucket) >= max_requests
       THEN IF bucket = <<>>
            THEN [raises |-> TRUE, admitted |-> FALSE, retry_after |-> 0,
                  bucket |-> bucket]
            ELSE [raises |-> FALSE, admitted |-> FALSE,
                  retry_after |->
                      Max(1, (WindowTicks - (t - Head(bucket)))
                                 \div TicksPerSecond),
                  bucket |-> bucket]
       ELSE [raises |-> FALSE, admitted |-> TRUE, retry_after |-> 0,
             bucket |-> Append(bucket, t)]

\* ---- the request in a worker ---------------------------------------------
\* pc: "idle"; "awaiting" (call_agent suspended in client.post); "loaded"
\* (report_result after db.get); "committed" (report_result after db.commit);
\* "returning" (the handler or a dependency has finished, the response is not
\* yet sent).  Once the response is sent the worker is idle again.
\* agent is the session's Agent object, loaded its column values as read from
\* the database; logs_before the number of call_logs rows when the handler
\* started; timeout the timeout_seconds of the call; sent the number of
\* outbound requests client.post has put on the wire; late whether the
\* upstream's answer came after the call had timed out.
IdleReq ==
    [pc |-> "idle", op |-> "none", api_key |-> "", agent_id |-> 0,
     success |-> FALSE, loaded |-> None, agent |-> None, samples |-> 0,
     logs_before |-> 0, outcome |-> None, latency_ms |-> None,
     status |-> 0, retry_after |-> None, result |-> "None", body |-> None,
     query |-> None, timeout |-> None, sent |-> 0, late |-> FALSE]

Free(w) == req[w].pc = "idle" /\ budget > 0

Request(w, op, key, id) ==
    [IdleReq EXCEPT !.op = op, !.api_key = key, !.agent_id = id]

Reply(r, status) == [r EXCEPT !.pc = "returning", !.status = status]

\* SQLite assigns max(rowid) + 1 to a new row.
next_id ==
    IF DOMAIN agents = {} THEN 1
    ELSE (CHOOSE i \in DOMAIN agents : \A j \in DOMAIN agents : j <= i) + 1

LogsOf(id) == SelectSeq(call_logs, LAMBDA l : l.agent_id = id)
LatencyLogsOf(id) == SelectSeq(LogsOf(id), LAMBDA l : l.latency_ms # None)

\* Variant: every log of the agent is counted, with or without latency.
latency_sample_count_all_logs(id) == Len(LogsOf(id))

\* Lines 81-83: the number of this agent's logs that carry a latency.
latency_sample_count(id) == Len(LatencyLogsOf(id))

\* db.add(log) followed by db.commit(): the row is appended to call_logs.
db_add(logs, log) == Append(logs, log)

\* Variant: the logs of a deleted agent stay.
cascade_delete_nothing(logs, id) == logs

\* Agent.call_logs has cascade="all, delete-orphan": deleting the agent
\* deletes the CallLogs whose agent_id is its id.
cascade_delete(logs, id) == SelectSeq(logs, LAMBDA l : l.agent_id # id)

\* Session.commit flushes an UPDATE that sets the columns whose value differs
\* from the value loaded (SQLAlchemy's unit of work), and no other column.
flush(row, loaded, obj) ==
    [c \in DOMAIN row |-> IF obj[c] # loaded[c] THEN obj[c] ELSE row[c]]

\* ---- dependencies of every route of the router ---------------------------
\* Variant: the limiter is consulted before the key is checked, so the
\* rejected request's timestamp is recorded under its key.
Unauthorized_after_allow(w, op, key, id) ==
    /\ Free(w)
    /\ ~get_api_key(key)
    /\ req' = [req EXCEPT ![w] =
           Reply(Request(w, op, key, id), get_api_key_status(key))]
    /\ budget' = budget - 1
    /\ store' = [store EXCEPT ![key] = Append(popleft_expired(@, now), now)]
    /\ UNCHANGED <<now, max_requests, agents, call_logs, allow_log>>

\* get_api_key raises: enforce_rate_limit is never entered.
Unauthorized(w, op, key, id) ==
    /\ Free(w)
    /\ ~get_api_key(key)
    /\ req' = [req EXCEPT ![w] =
           Reply(Request(w, op, key, id), get_api_key_status(key))]
    /\ budget' = budget - 1
    /\ UNCHANGED <<now, max_requests, store, agents, call_logs,
                   allow_log>>

\* enforce_rate_limit: rate_limiter.allow(api_key), with its effect on the
\* store; allowed is the value it must return for the request to go on.
enforce_rate_limit(w, key, allowed) ==
    LET a == allow(key, now)
    IN /\ Free(w)
       /\ get_api_key(key)
       /\ ~a.raises
       /\ a.admitted = allowed
       /\ store' = [store EXCEPT ![key] = a.bucket]
       /\ allow_log' = Append(allow_log,
              [key |-> key, t |-> now, raised |-> a.raises,
               admitted |-> a.admitted, retry_after |-> a.retry_after])
       /\ budget' = budget - 1

RateLimited(w, op, key, id) ==
    /\ enforce_rate_limit(w, key, FALSE)
    /\ req' = [req EXCEPT ![w] =
           [Reply(Request(w, op, key, id), 429) EXCEPT
               !.retry_after = Some(allow(key, now).retry_after)]]
    /\ UNCHANGED <<now, max_requests, agents, call_logs>>

\* CallAgentRequest / ReportResultRequest: agent_id must be > 0 (422).
Invalid(w, op, key, id) ==
    /\ op \in {"call", "report"}
    /\ enforce_rate_limit(w, key, TRUE)
    /\ ~(id > 0)
    /\ req' = [req EXCEPT ![w] = Reply(Request(w, op, key, id), 422)]
    /\ UNCHANGED <<now, max_requests, agents, call_logs>>

\* ---- routers/agents.py ---------------------------------------------------
\* Variant: a payload that is already registered gets the stored agent back
\* instead of a new one.
register_agent_deduplicated(w, key, payload) ==
    LET same == {i \in DOMAIN agents :
                    /\ agents[i].skills = payload.skills
                    /\ agents[i].price_per_call = payload.price_per_call
                    /\ agents[i].max_latency_ms = payload.max_latency_ms}
        id == IF same = {} THEN next_id ELSE CHOOSE i \in same : TRUE
    IN /\ enforce_rate_limit(w, key, TRUE)
       /\ Cardinality(DOMAIN agents) < MaxAgents
       /\ agents' = [i \in DOMAIN agents \cup {id} |->
                        IF i \in DOMAIN agents THEN agents[i] ELSE Agent(payload)]
       /\ req' = [req EXCEPT ![w] =
              [Reply(Request(w, "register", key, id), 201) EXCEPT
                  !.body = Some(agents'[id])]]
       /\ UNCHANGED <<now, max_requests, call_logs>>

register_agent(w, key, payload) ==
    /\ enforce_rate_limit(w, key, TRUE)
    /\ Cardinality(DOMAIN agents) < MaxAgents
    /\ agents' = [i \in DOMAIN agents \cup {next_id} |->
                     IF i = next_id THEN Agent(payload) ELSE agents[i]]
    /\ req' = [req EXCEPT ![w] =
           [Reply(Request(w, "register", key, next_id), 201) EXCEPT
               !.body = Some(Agent(payload))]]
    /\ UNCHANGED <<now, max_requests, call_logs>>

\* Variant: the failed lookup is logged as a failed call before the 404.
call_agent_not_found_logged(w, key, id) ==
    /\ enforce_rate_limit(w, key, TRUE)
    /\ id > 0
    /\ id \notin DOMAIN agents
    /\ req' = [req EXCEPT ![w] = Reply(Request(w, "call", key, id), 404)]
    /\ call_logs' = db_add(call_logs,
           log_call(id, FALSE, None, "Agent not found."))
    /\ UNCHANGED <<now, max_requests, agents>>

call_agent_not_found(w, key, id) ==
    /\ enforce_rate_limit(w, key, TRUE)
    /\ id > 0
    /\ id \notin DOMAIN agents
    /\ req' = [req EXCEPT ![w] = Reply(Request(w, "call", key, id), 404)]
    /\ UNCHANGED <<now, max_requests, agents, call_logs>>

\* Variant: max_latency_ms is used as it is, without the two limits.
timeout_seconds_unclamped(agent) == Frac(agent.max_latency_ms, 1000)

\* Line 79: min(max(max_latency_ms / 1000.0, 0.05), 30.0), in seconds.
timeout_seconds(agent) ==
    FracMin(FracMax(Frac(agent.max_latency_ms, 1000), <<1, 20>>), <<30, 1>>)

\* Lines 75-87: db.get, the timeout, the count of latency-bearing logs, then
\* client.post is entered.
call_agent_begin(w, key, id) ==
    /\ enforce_rate_limit(w, key, TRUE)
    /\ id > 0
    /\ id \in DOMAIN agents
    /\ req' = [req EXCEPT ![w] =
           [Request(w, "call", key, id) EXCEPT
               !.pc = "awaiting",
               !.timeout = Some(timeout_seconds(agents[id])),
               !.loaded = Some(agents[id]),
               !.agent = Some(agents[id]),
               !.samples = latency_sample_count(id),
               !.logs_before = Len(call_logs)]]
    /\ UNCHANGED <<now, max_requests, agents, call_logs>>

\* Lines 88-153: how the outbound request ended decides the metrics update,
\* the log's error_message and the response.  A body that json() parses is
\* recorded as a success; CallAgentResponse then accepts a dict or None as
\* result, and its validation fails on any other JSON value (500).
\* Variant: httpx.RequestError is caught before its subclass
\* httpx.TimeoutException, so a timeout is answered as unreachable.
classify_request_error_first(outcome) ==
    CASE outcome.kind \in {"timeout", "request_error"} ->
            [success |-> FALSE,
             error_message |-> "Failed to reach agent endpoint.",
             status |-> 502, result |-> "None"]
      [] outcome.kind = "response" /\ outcome.status_code >= 400 ->
            [success |-> FALSE,
             error_message |->
                 "Agent returned HTTP " \o ToString(outcome.status_code) \o ".",
             status |-> 502, result |-> "None"]
      [] outcome.kind = "response" /\ outcome.status_code < 400
            /\ outcome.body = "text" ->
            [success |-> FALSE,
             error_message |-> "Agent returned a non-JSON response.",
             status |-> 502, result |-> "None"]
      [] OTHER ->
            [success |-> TRUE, error_message |-> "None",
             status |-> IF outcome.body \in {"object", "null"} THEN 200 ELSE 500,
             result |-> IF outcome.body \in {"object", "null"}
                        THEN outcome.body ELSE "None"]

classify(outcome) ==
    CASE outcome.kind = "timeout" ->
            [success |-> FALSE, error_message |-> "Agent call timed out.",
             status |-> 504, result |-> "None"]
      [] outcome.kind = "request_error" ->
            [success |-> FALSE,
             error_message |-> "Failed to reach agent endpoint.",
             status |-> 502, result |-> "None"]
      [] outcome.kind = "response" /\ outcome.status_code >= 400 ->
            [success |-> FALSE,
             error_message |->
                 "Agent returned HTTP " \o ToString(outcome.status_code) \o ".",
             status |-> 502, result |-> "None"]
      [] outcome.kind = "response" /\ outcome.status_code < 400
            /\ outcome.body = "text" ->
            [success |-> FALSE,
             error_message |-> "Agent returned a non-JSON response.",
             status |-> 502, result |-> "None"]
      [] OTHER ->
            [success |-> TRUE, error_message |-> "None",
             status |-> IF outcome.body \in {"object", "null"} THEN 200 ELSE 500,
             result |-> IF outcome.body \in {"object", "null"}
                        THEN outcome.body ELSE "None"]

\* client.post raises an exception that is neither httpx.TimeoutException nor
\* httpx.RequestError: httpx.InvalidURL, which derives from Exception and is
\* raised while the request is built, before anything is sent, when
\* agent.endpoint (any string of 1 to 500 characters) cannot be parsed, as
\* "http://localhost:port".  No except clause of lines 130-153 matches: the
\* handler ends there, nothing is updated or logged, the answer is 500.
InvalidURL == [kind |-> "invalid_url", status_code |-> 0, body |-> "text"]

call_agent_unhandled(w) ==
    LET r == req[w]
    IN /\ r.pc = "awaiting"
       /\ req' = [req EXCEPT ![w] =
              [Reply(r, 500) EXCEPT !.outcome = Some(InvalidURL)]]
       /\ UNCHANGED <<now, max_requests, store, agents, call_logs, budget,
                      allow_log>>

\* The await returns or raises; apply_call_metrics, db.add(log_call), commit.
\* One request went out (line 87; the client neither retries nor follows
\* redirects).
call_agent_finish(w, outcome, latency_ms) ==
    LET r == req[w]
        c == classify(outcome)
        obj == apply_call_metrics(r.agent[1], c.success, Some(latency_ms),
                                  Some(r.samples))
    IN /\ r.pc = "awaiting"
       /\ agents' = [agents EXCEPT ![r.agent_id] = flush(@, r.loaded[1], obj)]
       /\ call_logs' = db_add(call_logs,
              log_call(r.agent_id, c.success, Some(latency_ms), c.error_message))
       /\ req' = [req EXCEPT ![w] =
              [Reply(r, c.status) EXCEPT
                  !.agent = Some(obj), !.outcome = Some(outcome),
                  !.success = c.success,
                  !.latency_ms = Some(latency_ms), !.result = c.result,
                  !.sent = 1]]
       /\ UNCHANGED <<now, max_requests, store, budget,
                      allow_log>>

report_result_not_found(w, key, id, success) ==
    /\ enforce_rate_limit(w, key, TRUE)
    /\ id > 0
    /\ id \notin DOMAIN agents
    /\ req' = [req EXCEPT ![w] =
           [Reply(Request(w, "report", key, id), 404) EXCEPT
               !.success = success]]
    /\ UNCHANGED <<now, max_requests, agents, call_logs>>

\* Line 158: db.get.
report_result_load(w, key, id, success) ==
    /\ enforce_rate_limit(w, key, TRUE)
    /\ id > 0
    /\ id \in DOMAIN agents
    /\ req' = [req EXCEPT ![w] =
           [Request(w, "report", key, id) EXCEPT
               !.pc = "loaded",
               !.success = success,
               !.loaded = Some(agents[id]),
               !.agent = Some(agents[id]),
               !.logs_before = Len(call_logs)]]
    /\ UNCHANGED <<now, max_requests, agents, call_logs>>

\* Lines 162-164: apply_call_metrics without latency, db.add(log_call), commit.
report_result_commit(w) ==
    LET r == req[w]
        obj == apply_call_metrics(r.agent[1], r.success, None, None)
    IN /\ r.pc = "loaded"
       /\ agents' = [agents EXCEPT ![r.agent_id] = flush(@, r.loaded[1], obj)]
       /\ call_logs' = db_add(call_logs,
              log_call(r.agent_id, r.success, None, "None"))
       /\ req' = [req EXCEPT ![w] =
              [r EXCEPT !.pc = "committed", !.agent = Some(obj)]]
       /\ UNCHANGED <<now, max_requests, store, budget,
                      allow_log>>

\* Lines 165-166: db.refresh re-reads the row, which is what is returned.
report_result_refresh(w) ==
    LET r == req[w]
    IN /\ r.pc = "committed"
       /\ req' = [req EXCEPT ![w] =
              [Reply(r, 200) EXCEPT
                  !.agent = Some(agents[r.agent_id]),
                  !.body = Some(agents[r.agent_id])]]
       /\ UNCHANGED <<now, max_requests, store, agents,
                      call_logs, budget, allow_log>>

\* ---- search_agents ---------------------------------------------------------
Contains(seq, x) == \E i \in 1 .. Len(seq) : seq[i] = x

\* Line 51: select(Agent) without ORDER BY; SQLite scans the table in rowid
\* order.  The ids of the set, ascending.
RECURSIVE select_agents(_)
select_agents(ids) ==
    IF ids = {} THEN <<>>
    ELSE LET first == CHOOSE i \in ids : \A j \in ids : i <= j
         IN <<first>> \o select_agents(ids \ {first})

\* Variant: the price must be strictly below max_price.
matches_price_strict(agent, q) ==
    /\ (q.skill # None /\ q.skill[1] # "") =>
           Contains(agent.skills, q.skill[1])
    /\ q.max_price # None => FracLess(agent.price_per_call, q.max_price[1])
    /\ q.min_score # None => FracLeq(q.min_score[1], agent.reputation_score)

\* Lines 53-58: the filters of query q on a row.  `if skill:` is false for
\* None and for the empty string; the other two test `is not None`.
matches(agent, q) ==
    /\ (q.skill # None /\ q.skill[1] # "") =>
           Contains(agent.skills, q.skill[1])
    /\ q.max_price # None => FracLeq(agent.price_per_call, q.max_price[1])
    /\ q.min_score # None => FracLeq(q.min_score[1], agent.reputation_score)

\* Variant: an agent without measured latency sorts as latency 0.
latency_sort_value_zero_first(agent) == agent.avg_latency

\* Lines 60-61.
latency_sort_value(agent) ==
    IF FracLess(Zero, agent.avg_latency) THEN agent.avg_latency ELSE Inf

\* Variant: the key tuple is (-reputation_score, latency_sort_value,
\* price_per_call).
sort_key_less_latency_before_price(a, b) ==
    \/ FracLess(b.reputation_score, a.reputation_score)
    \/ /\ a.reputation_score = b.reputation_score
       /\ \/ FracLess(latency_sort_value(a), latency_sort_value(b))
          \/ /\ latency_sort_value(a) = latency_sort_value(b)
             /\ FracLess(a.price_per_call, b.price_per_call)

\* Lines 63-69: the key tuple (-reputation_score, price_per_call,
\* latency_sort_value) of a is less than that of b.
sort_key_less(a, b) ==
    \/ FracLess(b.reputation_score, a.reputation_score)
    \/ /\ a.reputation_score = b.reputation_score
       /\ \/ FracLess(a.price_per_call, b.price_per_call)
          \/ /\ a.price_per_call = b.price_per_call
             /\ FracLess(latency_sort_value(a), latency_sort_value(b))

\* list.sort is stable: an element goes after every element whose key is not
\* greater than its own.
RECURSIVE insert_sorted(_, _)
insert_sorted(sorted, id) ==
    IF sorted = <<>> THEN <<id>>
    ELSE IF sort_key_less(agents[id], agents[Head(sorted)])
         THEN <<id>> \o sorted
         ELSE <<Head(sorted)>> \o insert_sorted(Tail(sorted), id)

RECURSIVE sort(_)
sort(ids) ==
    IF ids = <<>> THEN <<>>
    ELSE insert_sorted(sort(SubSeq(ids, 1, Len(ids) - 1)), ids[Len(ids)])

\* The list search_agents returns for query q, as the ids of its rows.
search(q) ==
    sort(SelectSeq(select_agents(DOMAIN agents),
                   LAMBDA id : matches(agents[id], q)))

search_agents(w, key, q) ==
    /\ enforce_rate_limit(w, key, TRUE)
    /\ req' = [req EXCEPT ![w] =
           [Reply(Request(w, "search", key, 0), 200) EXCEPT
               !.query = Some(q), !.body = Some(search(q))]]
    /\ UNCHANGED <<now, max_requests, agents, call_logs>>

\* The response leaves the server and the worker is free again.
respond(w) ==
    /\ req[w].pc = "returning"
    /\ req' = [req EXCEPT ![w] = IdleReq]
    /\ UNCHANGED <<now, max_requests, store, agents,
                   call_logs, budget, allow_log>>

\* Time passes between requests, a window's length at a time: requests
\* arrive at 0, window_seconds, 2 * window_seconds, ...
Tick ==
    /\ now < MaxTime * WindowTicks
    /\ now' = now + WindowTicks
    /\ UNCHANGED <<max_requests, store, agents, call_logs, req,
                   budget, allow_log>>

\* ---- specifications ------------------------------------------------------
\* The state at start-up: the limiter as constructed, the tables empty.
Init ==
    /\ now = 0
    /\ max_requests \in 1 .. MaxCapacity
    /\ store = [k \in ApiKeys |-> <<>>]
    /\ agents = <<>>
    /\ call_logs = <<>>
    /\ req = [w \in Workers |-> IdleReq]
    /\ budget = MaxOps
    /\ allow_log = <<>>

Handle(w) ==
    \/ \E key \in ApiKeys, op \in {"register", "search", "call", "report"} :
          \* rejected by a dependency, before the body is read: no agent_id
          \/ Unauthorized(w, op, key, 0)
          \/ RateLimited(w, op, key, 0)
          \/ \E id \in AgentIdInputs : Invalid(w, op, key, id)
    \/ \E key \in ApiKeys : register_agent(w, key, SamplePayload)
    \/ \E key \in ApiKeys : search_agents(w, key, NoFilters)
    \/ \E key \in ApiKeys, id \in AgentIdInputs :
          \/ call_agent_not_found(w, key, id)
          \/ call_agent_begin(w, key, id)
    \/ \E outcome \in Outcomes, latency_ms \in Latencies :
          call_agent_finish(w, outcome, latency_ms)
    \/ call_agent_unhandled(w)
    \/ \E key \in ApiKeys, id \in AgentIdInputs, success \in BOOLEAN :
          \/ report_result_not_found(w, key, id, success)
          \/ report_result_load(w, key, id, success)
    \/ report_result_commit(w)
    \/ report_result_refresh(w)
    \/ respond(w)

\* Requests are handled one at a time: a single worker.
Next == Tick \/ Handle(1)

Spec == Init /\ [][Next]_vars

\* Requests overlap: every worker takes requests.
NextConc == Tick \/ \E w \in Workers : Handle(w)

SpecConc == Init /\ [][NextConc]_vars

\* ---- deletion --------------------------------------------------------------
\* DELETE /agents/{agent_id}: the agent row goes, and with it the CallLogs it
\* owns (the call_logs relationship cascades); the answer is 204.
delete_agent(w, key, id) ==
    /\ enforce_rate_limit(w, key, TRUE)
    /\ id \in DOMAIN agents
    /\ agents' = [i \in DOMAIN agents \ {id} |-> agents[i]]
    /\ call_logs' = cascade_delete(call_logs, id)
    /\ req' = [req EXCEPT ![w] =
           [Reply(Request(w, "delete", key, id), 204) EXCEPT
               !.loaded = Some(agents[id]),
               !.logs_before = Len(call_logs)]]
    /\ UNCHANGED <<now, max_requests>>

\* An unknown id is answered 404 "Agent not found.".
delete_agent_not_found(w, key, id) ==
    /\ enforce_rate_limit(w, key, TRUE)
    /\ id \notin DOMAIN agents
    /\ req' = [req EXCEPT ![w] = Reply(Request(w, "delete", key, id), 404)]
    /\ UNCHANGED <<now, max_requests, agents, call_logs>>

\* The registry with deletion, requests one at a time.
NextDelete ==
    \/ Next
    \/ \E key \in ApiKeys, id \in AgentIdInputs :
          \/ delete_agent(1, key, id)
          \/ delete_agent_not_found(1, key, id)

SpecDelete == Init /\ [][NextDelete]_vars

\* ---- search on a populated registry -----------------------------------------
\* The registry that search_agents reads: every agent was registered with
\* one skill and one price and has since had nothing, one successful report,
\* or one successful call of some latency.
Payloads ==
    [skills : {<<k>> : k \in Skills}, price_per_call : Prices,
     max_latency_ms : {SamplePayload.max_latency_ms}]
\* A history is the latencies of the agent's logs: none, or one log whose
\* latency is None (a report) or a number (a call).
Histories == {<<>>, <<None>>} \cup {<<Some(l)>> : l \in Latencies}

RowAfter(payload, h) ==
    CASE h = <<>> -> Agent(payload)
      [] h = <<None>> -> apply_call_metrics(Agent(payload), TRUE, None, None)
      [] OTHER -> apply_call_metrics(Agent(payload), TRUE, h[1], Some(0))

RECURSIVE LogsAfter(_, _)
LogsAfter(hs, id) ==
    IF id > Len(hs) THEN <<>>
    ELSE (IF hs[id] = <<>> THEN <<>>
          ELSE <<log_call(id, TRUE, hs[id][1], "None")>>)
         \o LogsAfter(hs, id + 1)

InitSearch ==
    /\ now = 0
    /\ max_requests = MaxCapacity
    /\ store = [k \in ApiKeys |-> <<>>]
    /\ \E n \in 0 .. MaxAgents :
          \E ps \in [1 .. n -> Payloads], hs \in [1 .. n -> Histories] :
              /\ agents = [i \in 1 .. n |-> RowAfter(ps[i], hs[i])]
              /\ call_logs = LogsAfter(hs, 1)
    /\ req = [w \in Workers |-> IdleReq]
    /\ budget = 1
    /\ allow_log = <<>>

\* One search request, with any credential and any query.
NextSearch ==
    \/ \E key \in ApiKeys : Unauthorized(1, "search", key, 0)
    \/ \E key \in ApiKeys, q \in Queries : search_agents(1, key, q)
    \/ respond(1)

SpecSearch == InitSearch /\ [][NextSearch]_vars

\* ---- the rate limiter on its own --------------------------------------------
\* Threads call rate_limiter.allow directly.  A thread is idle, or has read
\* time.time() (line 19) and waits for the lock (line 20); lines 21-30 run
\* under the lock, so no other thread's step falls between them.  The clock
\* moves a tick at a time.
LimiterKeys == {Expected, "wrong-key"}
IdleThread == [pc |-> "idle", key |-> "", now |-> 0]

InitLimiter ==
    /\ now = 0
    /\ max_requests \in 1 .. MaxCapacity
    /\ store = [k \in ApiKeys |-> <<>>]
    /\ agents = <<>>
    /\ call_logs = <<>>
    /\ req = [w \in Workers |-> IdleThread]
    /\ budget = MaxOps
    /\ allow_log = <<>>

\* Line 19: now = time.time().
allow_time(th, key) ==
    /\ req[th].pc = "idle"
    /\ budget > 0
    /\ req' = [req EXCEPT ![th] = [pc |-> "lock", key |-> key, now |-> now]]
    /\ budget' = budget - 1
    /\ UNCHANGED <<now, max_requests, store, agents, call_logs, allow_log>>

\* Variant: a rejected call records its timestamp too.
allow_locked_records_rejection(th) ==
    LET key == req[th].key
        a == allow(key, req[th].now)
    IN /\ req[th].pc = "lock"
       /\ store' = [store EXCEPT ![key] =
              IF a.raises \/ a.admitted THEN a.bucket
              ELSE Append(a.bucket, req[th].now)]
       /\ allow_log' = Append(allow_log,
              [key |-> key, t |-> req[th].now, raised |-> a.raises,
               admitted |-> a.admitted, retry_after |-> a.retry_after])
       /\ req' = [req EXCEPT ![th] = IdleThread]
       /\ UNCHANGED <<now, max_requests, agents, call_logs, budget>>

\* Lines 20-30: with the lock held, prune, test the capacity, record or
\* reject, and return (or raise: the with statement releases the lock).
allow_locked(th) ==
    LET key == req[th].key
        a == allow(key, req[th].now)
    IN /\ req[th].pc = "lock"
       /\ store' = [store EXCEPT ![key] = a.bucket]
       /\ allow_log' = Append(allow_log,
              [key |-> key, t |-> req[th].now, raised |-> a.raises,
               admitted |-> a.admitted, retry_after |-> a.retry_after])
       /\ req' = [req EXCEPT ![th] = IdleThread]
       /\ UNCHANGED <<now, max_requests, agents, call_logs, budget>>

LimiterTick ==
    /\ now < WindowTicks + MaxTime
    /\ now' = now + 1
    /\ UNCHANGED <<max_requests, store, agents, call_logs, req, budget,
                   allow_log>>

Call(th) ==
    \/ \E key \in LimiterKeys : allow_time(th, key)
    \/ allow_locked(th)

\* Several threads call allow at once.
NextLimiter == LimiterTick \/ \E th \in Workers : Call(th)

SpecLimiter == InitLimiter /\ [][NextLimiter]_vars

\* One thread calls allow, one call after the other.
NextLimiterSeq == LimiterTick \/ Call(1)

SpecLimiterSeq == InitLimiter /\ [][NextLimiterSeq]_vars

\* ---- the call proxy on its own ------------------------------------------------
\* One registered agent that has not been called yet, with any
\* max_latency_ms; callers hold the secret and call it, several at once.
InitProxy ==
    /\ now = 0
    /\ max_requests = MaxCapacity
    /\ store = [k \in ApiKeys |-> <<>>]
    /\ \E ms \in LatencyBudgets :
          agents = <<Agent([SamplePayload EXCEPT !.max_latency_ms = ms])>>
    /\ call_logs = <<>>
    /\ req = [w \in Workers |-> IdleReq]
    /\ budget = MaxInFlight
    /\ allow_log = <<>>

TimeoutOutcome == [kind |-> "timeout", status_code |-> 0, body |-> "text"]

\* The upstream answers a request whose client has already timed out: the
\* AsyncClient was closed when line 86's block was left, nothing receives
\* the answer.
late_response(w) ==
    /\ req[w].pc = "returning"
    /\ req[w].outcome = Some(TimeoutOutcome)
    /\ ~req[w].late
    /\ req' = [req EXCEPT ![w].late = TRUE]
    /\ UNCHANGED <<now, max_requests, store, agents, call_logs, budget,
                   allow_log>>

Proxy(w) ==
    \/ call_agent_begin(w, Expected, 1)
    \/ \E outcome \in Outcomes, latency_ms \in Latencies :
          call_agent_finish(w, outcome, latency_ms)
    \/ call_agent_unhandled(w)
    \/ late_response(w)
    \/ respond(w)

NextProxy == \E w \in Workers : Proxy(w)

SpecProxy == InitProxy /\ [][NextProxy]_vars

\* Calls on the agent one after the other.
NextProxySeq == Proxy(1)

SpecProxySeq == InitProxy /\ [][NextProxySeq]_vars

\* The timer of line 86 (timeout=timeout_seconds) runs whatever the upstream
\* and the other calls do: a call that stays suspended in client.post is
\* ended by httpx.TimeoutException.  Nothing is assumed of the upstream.
TimerFires(w) ==
    \E latency_ms \in Latencies : call_agent_finish(w, TimeoutOutcome, latency_ms)

SpecProxyLive ==
    InitProxy /\ [][NextProxy]_vars /\ \A w \in Workers : WF_vars(TimerFires(w))

\* The limiter in every configuration the constructor accepts: max_requests
\* may be 0.  One thread calls allow.
InitLimiterConfig ==
    /\ now = 0
    /\ max_requests \in 0 .. MaxCapacity
    /\ store = [k \in ApiKeys |-> <<>>]
    /\ agents = <<>>
    /\ call_logs = <<>>
    /\ req = [w \in Workers |-> IdleThread]
    /\ budget = MaxOps
    /\ allow_log = <<>>

SpecLimiterConfig == InitLimiterConfig /\ [][NextLimiterSeq]_vars

\* ---- properties ----------------------------------------------------------
RECURSIVE SumLatency(_)
SumLatency(logs) ==
    IF logs = <<>> THEN 0 ELSE Head(logs).latency_ms[1] + SumLatency(Tail(logs))

SuccessLogsOf(id) == SelectSeq(LogsOf(id), LAMBDA l : l.success)

\* x is the fraction n / d (d > 0).
IsRatio(x, n, d) == x[2] > 0 /\ x[1] * d = n * x[2]

\* A worker is handling a call / a report on an agent that db.get found.
CallOnAgent(w) == req[w].op = "call" /\ req[w].loaded # None
ReportOnAgent(w) == req[w].op = "report" /\ req[w].loaded # None

\* C1: with requests handled one at a time, every agent's total_calls equals
\* successful_calls + failed_calls in every state, whatever the operations
\* and their outcomes were.
C1_CountersAddUp ==
    \A id \in DOMAIN agents :
        agents[id].total_calls
            = agents[id].successful_calls + agents[id].failed_calls

C1_Witness ==
    \E id \in DOMAIN agents :
        /\ agents[id].successful_calls > 0
        /\ agents[id].failed_calls > 0
        /\ \E l \in 1 .. Len(call_logs) : call_logs[l].error_message # "None"

\* C2: in every reachable state, overlapping requests included, every
\* agent's reputation_score is successful_calls / total_calls when
\* total_calls > 0 and 0 when total_calls = 0, so it lies in [0, 1].
C2_Reputation ==
    \A id \in DOMAIN agents :
        LET a == agents[id]
        IN /\ a.total_calls > 0 =>
                  IsRatio(a.reputation_score, a.successful_calls, a.total_calls)
           /\ a.total_calls = 0 => a.reputation_score = Zero
           /\ FracLeq(Zero, a.reputation_score)
           /\ FracLeq(a.reputation_score, FromInt(1))

\* C3: a call on an existing agent changes nothing while it awaits the
\* upstream; whatever the outcome, once its response is about to be produced
\* the agent's total_calls has grown by exactly 1 and exactly one CallLog,
\* for that agent, has been appended and committed.
C3_OneUpdateOneLog ==
    \A w \in Workers :
        LET r == req[w]
        IN CallOnAgent(w) =>
              /\ r.pc \in {"awaiting", "returning"}
              /\ r.pc = "awaiting" =>
                     /\ agents[r.agent_id] = r.loaded[1]
                     /\ Len(call_logs) = r.logs_before
              /\ r.pc = "returning" =>
                     /\ r.outcome # None
                     /\ agents[r.agent_id].total_calls
                            = r.loaded[1].total_calls + 1
                     /\ Len(call_logs) = r.logs_before + 1
                     /\ call_logs[Len(call_logs)].agent_id = r.agent_id
                     /\ Len(LogsOf(r.agent_id)) = agents[r.agent_id].total_calls

\* C4: once overlapping calls and reports on an agent have all completed, no
\* update is lost: total_calls is the number of operations (each appended
\* one log), total_calls = successful_calls + failed_calls, and avg_latency
\* is the mean of the recorded latencies.
C4_NoLostUpdate ==
    (\A w \in Workers : req[w].pc = "idle") =>
        \A id \in DOMAIN agents :
            LET a == agents[id]
                timed == LatencyLogsOf(id)
            IN /\ a.total_calls = Len(LogsOf(id))
               /\ a.total_calls = a.successful_calls + a.failed_calls
               /\ timed # <<>> =>
                      IsRatio(a.avg_latency, SumLatency(timed), Len(timed))

\* What C5 says the response to a call on an existing agent is.
C5_Expected(outcome) ==
    CASE outcome.kind = "timeout" -> 504
      [] outcome.kind = "request_error" -> 502
      [] outcome.status_code >= 400 -> 502
      [] outcome.body = "text" -> 502
      [] OTHER -> 200

\* C5: a call on an existing agent answers 200 with the result exactly when
\* the upstream answered with status < 400 and a body that parses; 502 on
\* status >= 400, on a body that does not parse and on a transport failure
\* other than a timeout; 504 exactly on a timeout; and nothing else.
C5_ResponseCodes ==
    \A w \in Workers :
        CallOnAgent(w) /\ req[w].pc = "returning" =>
            /\ req[w].status = C5_Expected(req[w].outcome[1])
            /\ req[w].status = 200 <=> req[w].result # "None"

LocalRejections == {401, 429, 404, 422}

\* C6: a request rejected with 401, 429, 404 or 422 leaves the agents table
\* and call_logs as they were; and failed_calls of an agent only ever grows
\* in a step that ends a proxied call answered 502 or 504, or that commits a
\* report with success = false.
C6_LocalRejections ==
    [][ /\ \A w \in Workers :
              (req[w].pc = "idle" /\ req'[w].pc = "returning"
                   /\ req'[w].status \in LocalRejections) =>
                  (agents' = agents /\ call_logs' = call_logs)
        /\ \A id \in DOMAIN agents :
              agents'[id].failed_calls > agents[id].failed_calls =>
                  \E w \in Workers :
                      /\ req'[w].agent_id = id
                      /\ \/ /\ req[w].pc = "awaiting"
                            /\ req'[w].op = "call"
                            /\ req'[w].status \in {502, 504}
                         \/ /\ req[w].pc = "loaded"
                            /\ req'[w].op = "report"
                            /\ ~req'[w].success
      ]_vars

C6_Witness ==
    \E w \in Workers :
        /\ req[w].pc = "returning"
        /\ req[w].status = 404
        /\ req[w].op = "report"
        /\ \E id \in DOMAIN agents : agents[id].failed_calls = 2

Last(seq) == seq[Len(seq)]

\* C7: counting the allow() calls for a key from its first one (empty
\* history), a call made no later than one window after the first is
\* admitted exactly when it is among the first max_requests calls, and a
\* rejected one returns retry_after >= 1; each rejection is answered 429
\* with that value as Retry-After.
C7_FirstCallsAdmitted ==
    /\ [](\A i \in 1 .. Len(allow_log) :
             allow_log[i].t - allow_log[1].t <= WindowTicks =>
                 /\ allow_log[i].admitted <=> i <= max_requests
                 /\ ~allow_log[i].admitted => allow_log[i].retry_after >= 1)
    /\ [][ \A w \in Workers :
              (req[w].pc = "idle" /\ req'[w].pc # "idle"
                   /\ Len(allow_log') = Len(allow_log) + 1
                   /\ ~Last(allow_log').admitted) =>
                  /\ req'[w].pc = "returning"
                  /\ req'[w].status = 429
                  /\ req'[w].retry_after = Some(Last(allow_log').retry_after)
                  /\ req'[w].retry_after[1] >= 1
       ]_vars

C7_Witness ==
    /\ max_requests = 2
    /\ Len(allow_log) = 3
    /\ allow_log[3].t - allow_log[1].t <= WindowTicks
    /\ allow_log[1].admitted /\ allow_log[2].admitted /\ ~allow_log[3].admitted
    /\ \E w \in Workers : req[w].status = 429 /\ req[w].retry_after # None

\* C8: with requests handled one at a time, every agent's avg_latency is the
\* arithmetic mean of the latencies in its CallLogs that carry one (0 when
\* there is none); logs without latency, the reports, count for nothing.
C8_AvgIsMean ==
    \A id \in DOMAIN agents :
        LET timed == LatencyLogsOf(id)
        IN IF timed = <<>>
           THEN agents[id].avg_latency = Zero
           ELSE IsRatio(agents[id].avg_latency, SumLatency(timed), Len(timed))

C8_Witness ==
    \E id \in DOMAIN agents :
        /\ Len(LogsOf(id)) = 3
        /\ LogsOf(id)[1].latency_ms = Some(1)
        /\ LogsOf(id)[2].latency_ms = None
        /\ LogsOf(id)[3].latency_ms = Some(2)
        /\ agents[id].avg_latency = <<3, 2>>

\* C9: a call that timed out is answered 504; failed_calls and total_calls
\* are each 1 more than before, successful_calls is as before, avg_latency is
\* the running mean extended by the elapsed time, and the CallLog carries
\* that latency.
C9_Timeout ==
    \A w \in Workers :
        LET r == req[w]
            a == agents[r.agent_id]
            b == r.loaded[1]
            n == Len(LatencyLogsOf(r.agent_id)) - 1
            log == call_logs[Len(call_logs)]
        IN (CallOnAgent(w) /\ r.pc = "returning"
                /\ r.outcome[1].kind = "timeout") =>
              /\ r.status = 504
              /\ a.failed_calls = b.failed_calls + 1
              /\ a.total_calls = b.total_calls + 1
              /\ a.successful_calls = b.successful_calls
              /\ a.avg_latency[1] * b.avg_latency[2] * (n + 1)
                    = (b.avg_latency[1] * n + r.latency_ms[1] * b.avg_latency[2])
                          * a.avg_latency[2]
              /\ log = [agent_id |-> r.agent_id, success |-> FALSE,
                        latency_ms |-> r.latency_ms,
                        error_message |-> "Agent call timed out."]

C9_Witness ==
    \E w \in Workers :
        /\ CallOnAgent(w)
        /\ req[w].pc = "returning"
        /\ req[w].outcome[1].kind = "timeout"
        /\ req[w].loaded[1].avg_latency = <<1, 1>>
        /\ agents[req[w].agent_id].avg_latency = <<3, 2>>
        /\ req[w].loaded[1].total_calls = 2

\* C10: an agent that has only been reported on, n >= 1 times and s of them
\* with success, has total_calls = n, successful_calls = s, failed_calls =
\* n - s, reputation_score = s / n and avg_latency = 0; and a report on any
\* agent leaves its avg_latency as it was and appends one CallLog without
\* latency.
C10_Reports ==
    /\ \A id \in DOMAIN agents :
          LET n == Len(LogsOf(id))
              ok == Len(SuccessLogsOf(id))
              a == agents[id]
          IN (n >= 1 /\ LatencyLogsOf(id) = <<>>) =>
                /\ a.total_calls = n
                /\ a.successful_calls = ok
                /\ a.failed_calls = n - ok
                /\ IsRatio(a.reputation_score, ok, n)
                /\ a.avg_latency = Zero
    /\ \A w \in Workers :
          LET r == req[w]
          IN (ReportOnAgent(w) /\ r.pc \in {"committed", "returning"}) =>
                /\ agents[r.agent_id].avg_latency = r.loaded[1].avg_latency
                /\ Len(call_logs) = r.logs_before + 1
                /\ Last(call_logs) =
                       [agent_id |-> r.agent_id, success |-> r.success,
                        latency_ms |-> None, error_message |-> "None"]

C10_Witness ==
    \E id \in DOMAIN agents :
        /\ Len(LogsOf(id)) = 3
        /\ LogsOf(id)[1].success /\ LogsOf(id)[2].success /\ ~LogsOf(id)[3].success
        /\ LatencyLogsOf(id) = <<>>
        /\ agents[id].reputation_score = <<2, 3>>
        /\ \E w \in Workers : ReportOnAgent(w) /\ req[w].pc = "returning"

\* A worker is about to return the list of a search.
SearchDone(w) ==
    req[w].op = "search" /\ req[w].pc = "returning" /\ req[w].status = 200

Found(w) == req[w].body[1]
FoundIds(w) == {Found(w)[i] : i \in 1 .. Len(Found(w))}
SkillSet(agent) == {agent.skills[i] : i \in 1 .. Len(agent.skills)}

\* The agent passes every filter the query supplies.
Satisfies(agent, q) ==
    /\ q.skill # None => q.skill[1] \in SkillSet(agent)
    /\ q.max_price # None =>
           agent.price_per_call[1] * q.max_price[1][2]
               <= q.max_price[1][1] * agent.price_per_call[2]
    /\ q.min_score # None =>
           agent.reputation_score[1] * q.min_score[1][2]
               >= q.min_score[1][1] * agent.reputation_score[2]

\* C11: the list search returns holds each stored agent once if it passes
\* every supplied filter (skill among its skills, price_per_call <=
\* max_price, reputation_score >= min_score) and not at all otherwise; with
\* no filter supplied that is every agent, with no match the empty list.
C11_ExactFilter ==
    \A w \in Workers :
        SearchDone(w) =>
            /\ Len(Found(w)) = Cardinality(FoundIds(w))
            /\ FoundIds(w) =
                   {id \in DOMAIN agents : Satisfies(agents[id], req[w].query[1])}

\* A query whose skill is the empty string, read as a query without skill.
EmptySkillAbsent(q) == IF q.skill = Some("") THEN [q EXCEPT !.skill = None] ELSE q

\* C11 amended: the same, where a skill filter that is the empty string
\* counts as not supplied and excludes nothing.
C11_EmptySkillIsNoFilter ==
    \A w \in Workers :
        SearchDone(w) =>
            /\ Len(Found(w)) = Cardinality(FoundIds(w))
            /\ FoundIds(w) =
                   {id \in DOMAIN agents :
                       Satisfies(agents[id], EmptySkillAbsent(req[w].query[1]))}

\* All three filters supplied: of two agents with the skill, the one at the
\* price limit with reputation 1 is returned, the one never called is not.
C11_Witness ==
    \E w \in Workers :
        /\ SearchDone(w)
        /\ req[w].query[1] =
               [skill |-> Some("summarize_text"), max_price |-> Some(<<1, 1000>>),
                min_score |-> Some(<<1, 2>>)]
        /\ DOMAIN agents = {1, 2}
        /\ agents[1].reputation_score = Zero
        /\ agents[2].price_per_call = <<1, 1000>>
        /\ Found(w) = <<2>>

\* C12: in the list search returns, an agent that comes before another has
\* the higher reputation_score, or the same reputation_score and a
\* price_per_call that is not higher.
C12_RankedByScoreThenPrice ==
    \A w \in Workers :
        SearchDone(w) =>
            \A i, j \in 1 .. Len(Found(w)) :
                i < j =>
                    LET x == agents[Found(w)[i]]
                        y == agents[Found(w)[j]]
                    IN \/ x.reputation_score[1] * y.reputation_score[2]
                              > y.reputation_score[1] * x.reputation_score[2]
                       \/ /\ x.reputation_score = y.reputation_score
                          /\ x.price_per_call[1] * y.price_per_call[2]
                                 <= y.price_per_call[1] * x.price_per_call[2]

\* Agent 1 at price 0.002 and agent 2 at price 0.001 with the same reputation
\* come back as [2, 1] although agent 1 has the lower avg_latency.
C12_Witness ==
    \E w \in Workers :
        /\ SearchDone(w)
        /\ Found(w) = <<2, 1>>
        /\ agents[1].price_per_call = <<1, 500>>
        /\ agents[2].price_per_call = <<1, 1000>>
        /\ agents[1].reputation_score = <<1, 1>>
        /\ agents[2].reputation_score = <<1, 1>>
        /\ agents[1].avg_latency = <<1, 1>>
        /\ agents[2].avg_latency = <<2, 1>>

\* C13: of two returned agents with the same reputation_score and
\* price_per_call, the one that comes first has a measured avg_latency (> 0)
\* not above the other's, or the other has none; an agent without measured
\* latency comes first only before agents without one.
C13_LatencyTieBreak ==
    \A w \in Workers :
        SearchDone(w) =>
            \A i, j \in 1 .. Len(Found(w)) :
                LET x == agents[Found(w)[i]]
                    y == agents[Found(w)[j]]
                IN (i < j /\ x.reputation_score = y.reputation_score
                          /\ x.price_per_call = y.price_per_call) =>
                      IF x.avg_latency = Zero
                      THEN y.avg_latency = Zero
                      ELSE \/ y.avg_latency = Zero
                           \/ x.avg_latency[1] * y.avg_latency[2]
                                  <= y.avg_latency[1] * x.avg_latency[2]

\* Agent 1 was never called, agent 2 has a measured latency; tied on
\* reputation and price, agent 2 is returned first.
C13_Witness ==
    \E w \in Workers :
        /\ SearchDone(w)
        /\ Found(w) = <<2, 1>>
        /\ agents[1].reputation_score = agents[2].reputation_score
        /\ agents[1].price_per_call = agents[2].price_per_call
        /\ agents[1].avg_latency = Zero
        /\ agents[2].avg_latency = <<2, 1>>

C15_RegisterAddsAgent ==
    [][ \A w \in Workers :
          (req[w].pc = "idle" /\ req'[w].op = "register"
               /\ req'[w].status = 201) =>
              LET id == req'[w].agent_id
              IN /\ id \notin DOMAIN agents
                 /\ DOMAIN agents' = DOMAIN agents \cup {id}
                 /\ Cardinality(DOMAIN agents') = Cardinality(DOMAIN agents) + 1
                 /\ agents'[id].total_calls = 0
                 /\ agents'[id].successful_calls = 0
                 /\ agents'[id].failed_calls = 0
                 /\ agents'[id].avg_latency = Zero
                 /\ agents'[id].reputation_score = Zero
                 /\ \A i \in DOMAIN agents : agents'[i] = agents[i]
                 /\ req'[w].body = Some(agents'[id])
                 /\ call_logs' = call_logs
      ]_vars

\* The same payload has been registered a second time, after the first
\* agent had been called or reported on: two agents, the first one's
\* metrics as they were.
C15_Witness ==
    \E w \in Workers :
        /\ req[w].op = "register"
        /\ req[w].status = 201
        /\ req[w].agent_id = 2
        /\ DOMAIN agents = {1, 2}
        /\ agents[1].skills = agents[2].skills
        /\ agents[1].price_per_call = agents[2].price_per_call
        /\ agents[1].total_calls = 1
        /\ agents[2].total_calls = 0

\* C16: a register, search, call or report request whose X-API-Key is absent
\* (empty) or differs from the configured secret is answered 401, and the
\* step that rejects it consults no limiter and runs no handler: store,
\* agents and call_logs stay as they are; every request answered otherwise,
\* or still in its handler, carries the secret.
C16_Unauthorized ==
    /\ [](\A w \in Workers :
             req[w].pc # "idle" =>
                 /\ req[w].api_key # Expected <=> req[w].status = 401
                 /\ req[w].status = 401 =>
                        /\ req[w].pc = "returning"
                        /\ req[w].loaded = None
                        /\ req[w].body = None)
    /\ [][ \A w \in Workers :
              (req[w].pc = "idle" /\ req'[w].pc # "idle"
                   /\ req'[w].api_key # Expected) =>
                  /\ store' = store
                  /\ allow_log' = allow_log
                  /\ agents' = agents
                  /\ call_logs' = call_logs
       ]_vars

\* The allow() calls for a key that were admitted with a recorded timestamp
\* in [from, from + window_seconds).
AdmittedIn(key, from) ==
    {i \in 1 .. Len(allow_log) :
        /\ allow_log[i].key = key
        /\ allow_log[i].admitted
        /\ from <= allow_log[i].t
        /\ allow_log[i].t < from + WindowTicks}

\* C17: whatever the interleaving of the threads calling allow, for every
\* key and every interval of length window_seconds, at most max_requests of
\* the admitted calls have their recorded timestamp in the interval.
C17_WindowQuota ==
    \A key \in LimiterKeys, from \in 0 .. (WindowTicks + MaxTime) :
        Cardinality(AdmittedIn(key, from)) <= max_requests

\* C18: in every state, threads calling allow concurrently included, the
\* timestamps stored for a key are in non-decreasing order from the front.
C18_BucketOrdered ==
    \A key \in DOMAIN store :
        \A i, j \in 1 .. Len(store[key]) :
            i < j => store[key][i] <= store[key][j]

\* The least number of whole seconds that is no less than n ticks.
CeilSeconds(n) == -((-n) \div TicksPerSecond)

\* C19: an allow() call that rejects returns max(1, ceil(window_seconds -
\* (now - oldest))), oldest being the front of the key's timestamps once
\* the expired ones are dropped; one that admits returns 0.
C19_RetryAfterCeil ==
    [][ Len(allow_log') = Len(allow_log) + 1 =>
          LET call == Last(allow_log')
              oldest == Head(store'[call.key])
          IN IF call.admitted
             THEN call.retry_after = 0
             ELSE call.retry_after =
                      Max(1, CeilSeconds(WindowTicks - (call.t - oldest)))
      ]_vars

\* C20: when an allow() call for a key is rejected with retry_after = N and
\* the next call for that key is made N seconds later, that call is
\* admitted.
C20_RetryAfterSuffices ==
    \A i, j \in 1 .. Len(allow_log) :
        (/\ i < j
         /\ allow_log[i].key = allow_log[j].key
         /\ \A k \in (i + 1) .. (j - 1) : allow_log[k].key # allow_log[i].key
         /\ ~allow_log[i].admitted
         /\ allow_log[j].t
                = allow_log[i].t + allow_log[i].retry_after * TicksPerSecond)
            => allow_log[j].admitted

\* seq is what is left of whole after dropping elements from its front.
IsSuffix(seq, whole) ==
    /\ Len(seq) <= Len(whole)
    /\ seq = SubSeq(whole, Len(whole) - Len(seq) + 1, Len(whole))

Front(seq) == SubSeq(seq, 1, Len(seq) - 1)

\* C21: an allow(key) that rejects leaves of key's timestamps a suffix (it
\* appends none), one that admits leaves a suffix followed by exactly one
\* new timestamp, its own; neither changes the timestamps of another key;
\* and the call is admitted exactly when fewer than max_requests of the
\* key's own timestamps are left after the pruning.
C21_OnlyAdmissionAppends ==
    [][ Len(allow_log') = Len(allow_log) + 1 =>
          LET call == Last(allow_log')
              before == store[call.key]
              after == store'[call.key]
              kept == IF call.admitted THEN Front(after) ELSE after
          IN /\ \A k \in DOMAIN store : k # call.key => store'[k] = store[k]
             /\ call.admitted =>
                    /\ after # <<>>
                    /\ Last(after) = call.t
             /\ IsSuffix(kept, before)
             /\ call.admitted <=> Len(kept) < max_requests
      ]_vars

\* With one slot, a call for one key was rejected at a full bucket, which
\* stayed as it was, while the other key has its own timestamp stored.
C21_Witness ==
    /\ max_requests = 1
    /\ Len(allow_log) = 3
    /\ allow_log[1].admitted /\ allow_log[1].key = "wrong-key"
    /\ allow_log[2].admitted /\ allow_log[2].key = Expected
    /\ ~allow_log[3].admitted /\ allow_log[3].key = Expected
    /\ store[Expected] = <<allow_log[2].t>>
    /\ store["wrong-key"] = <<allow_log[1].t>>

\* C22: every allow() call returns a pair, it never raises, whatever
\* max_requests >= 0 the limiter was built with; and after a call that
\* rejects, the key's sequence is not empty.
C22_AllowNeverFails ==
    /\ [](\A i \in 1 .. Len(allow_log) : ~allow_log[i].raised)
    /\ [][ (Len(allow_log') = Len(allow_log) + 1
               /\ ~Last(allow_log').raised /\ ~Last(allow_log').admitted) =>
              store'[Last(allow_log').key] # <<>>
       ]_vars

\* C23: when a call has added 1 to the agent's successful_calls and written
\* a CallLog with success = true, its caller is answered 200 with the
\* result; no call is counted as a success and answered with an error.
C23_SuccessOnlyWith200 ==
    \A w \in Workers :
        LET r == req[w]
        IN (/\ CallOnAgent(w) /\ r.pc = "returning"
            /\ \/ Last(call_logs).success
               \/ r.agent[1].successful_calls > r.loaded[1].successful_calls) =>
              /\ r.status = 200
              /\ r.result # "None"

\* C24: with requests handled one at a time, in every state each agent's
\* total_calls is the number of CallLogs of its id and successful_calls the
\* number of those with success = true; a step changes an agent's counters
\* exactly when it appends a CallLog of that agent, one log for one count;
\* and the CallLogs already stored stay as they are, new ones go after them.
C24_CountersMatchLogs ==
    /\ [](\A id \in DOMAIN agents :
             /\ agents[id].total_calls = Len(LogsOf(id))
             /\ agents[id].successful_calls = Len(SuccessLogsOf(id)))
    /\ [][ /\ Len(call_logs') >= Len(call_logs)
           /\ SubSeq(call_logs', 1, Len(call_logs)) = call_logs
           /\ \A id \in DOMAIN agents :
                 LET added == SelectSeq(
                         SubSeq(call_logs', Len(call_logs) + 1, Len(call_logs')),
                         LAMBDA l : l.agent_id = id)
                 IN /\ Len(added) <= 1
                    /\ agents'[id].total_calls
                           = agents[id].total_calls + Len(added)
                    /\ added = <<>> => agents'[id] = agents[id]
       ]_vars

\* An agent after a successful call, a failed report and a failed call:
\* three logs, one of them a success.
C24_Witness ==
    \E id \in DOMAIN agents :
        /\ agents[id].total_calls = 3
        /\ agents[id].successful_calls = 1
        /\ Len(LogsOf(id)) = 3
        /\ LogsOf(id)[1].success /\ LogsOf(id)[1].latency_ms # None
        /\ ~LogsOf(id)[2].success /\ LogsOf(id)[2].latency_ms = None
        /\ ~LogsOf(id)[3].success /\ LogsOf(id)[3].latency_ms # None

\* C25: the step that answers a request 401 calls no allow(): no key's
\* timestamps are appended to or pruned, those of the valid key included;
\* and the step that answers a request 429 ends the request there: no agent
\* is loaded, no outbound call is begun, agents and call_logs stay as they
\* are.
C25_AuthBeforeAdmission ==
    [][ \A w \in Workers :
          (req[w].pc = "idle" /\ req'[w].pc # "idle") =>
              /\ req'[w].status = 401 =>
                     /\ store' = store
                     /\ allow_log' = allow_log
              /\ req'[w].status = 429 =>
                     /\ req'[w].pc = "returning"
                     /\ req'[w].loaded = None
                     /\ req'[w].outcome = None
                     /\ agents' = agents
                     /\ call_logs' = call_logs
      ]_vars

\* A request with a wrong key is answered 401 after the valid key's only
\* slot was taken and a further request with the valid key answered 429:
\* the valid key's timestamps are the one admitted, the wrong key has none.
C25_Witness ==
    \E w \in Workers :
        /\ req[w].pc = "returning"
        /\ req[w].status = 401
        /\ req[w].api_key = "wrong-key"
        /\ max_requests = 1
        /\ Len(allow_log) = 2
        /\ allow_log[1].admitted /\ ~allow_log[2].admitted
        /\ store[Expected] = <<allow_log[1].t>>
        /\ store["wrong-key"] = <<>>
        /\ DOMAIN agents = {1}

\* C26: a call on an existing agent that is about to be answered has sent
\* exactly one outbound request, whatever its outcome; and when the
\* upstream's answer arrives after the call has timed out, the agents
\* table and call_logs stay as they are.
C26_OneOutboundRequest ==
    /\ [](\A w \in Workers :
             (CallOnAgent(w) /\ req[w].pc = "returning") => req[w].sent = 1)
    /\ [][ \A w \in Workers :
              (~req[w].late /\ req'[w].late) =>
                  (agents' = agents /\ call_logs' = call_logs)
       ]_vars

\* C27: a call on an existing agent that is about to be answered ended in
\* one of the five outcomes, that is client.post returned a response, timed
\* out or failed to reach the endpoint, and its metrics and log are written;
\* and every call suspended in client.post is eventually about to be
\* answered, whatever the upstream and the other calls do.
C27_CallCompletes ==
    /\ [](\A w \in Workers :
             (CallOnAgent(w) /\ req[w].pc = "returning") =>
                 /\ req[w].outcome[1] \in Outcomes
                 /\ Len(call_logs) > req[w].logs_before)
    /\ \A w \in Workers :
          (req[w].pc = "awaiting") ~> (req[w].pc = "returning")

\* timeout_seconds as a number of milliseconds is ms.
IsMilliseconds(timeout, ms) == timeout[2] > 0 /\ timeout[1] * 1000 = ms * timeout[2]

\* C28: the timeout of a call's outbound request is the agent's
\* max_latency_ms when that lies between 50 ms and 30000 ms, both included,
\* 50 ms when it is below and 30000 ms when it is above.
C28_TimeoutClamped ==
    \A w \in Workers :
        CallOnAgent(w) =>
            LET ms == req[w].loaded[1].max_latency_ms
                t == req[w].timeout[1]
            IN /\ (50 <= ms /\ ms <= 30000) => IsMilliseconds(t, ms)
               /\ ms < 50 => IsMilliseconds(t, 50)
               /\ ms > 30000 => IsMilliseconds(t, 30000)

\* A call on an agent registered with max_latency_ms = 30001 is suspended
\* in client.post with a timeout of 30 seconds, after an earlier call on it
\* timed out.
C28_Witness ==
    \E w \in Workers :
        /\ agents[1].max_latency_ms = 30001
        /\ CallOnAgent(w)
        /\ req[w].pc = "awaiting"
        /\ req[w].timeout = Some(<<30, 1>>)
        /\ Len(call_logs) = 1
        /\ call_logs[1].error_message = "Agent call timed out."

====
